---- MODULE Spec2Model ----
(***************************************************************************)
(* filterRecords.py: extracts from a record file the records whose ID is   *)
(* listed in an ID filter file.                                            *)
(*                                                                         *)
(* main(argv) = process_command_line(argv) ; run(args[0], settings).       *)
(*                                                                         *)
(* Command-line arguments and option values are strings, modelled as       *)
(* sequences of one-character strings, so that option recognition,         *)
(* str.split(',') and int() are computed on the characters.  Record fields *)
(* and record IDs are opaque strings.  The record file is the sequence of  *)
(* rows csv.reader yields, the output is the sequence of rows handed to    *)
(* csv.writer.writerow, and a line of the filter file is the non-empty     *)
(* list str.splitlines() cuts it into.  None and the empty string are both *)
(* modelled as the empty sequence: the program only tests such values for  *)
(* truth.                                                                  *)
(***************************************************************************)
EXTENDS Integers, Sequences, FiniteSets, TLC

\* ------------------------------------------------------------------ bounds
\* longest argument list of the exhaustive command-line family
MaxArgs == 5
\* most rows read from the record file
MaxRecs == 2
\* most lines read from the filter file
MaxLines == 2
\* most column numbers in a layout option
MaxLayout == 2

\* ------------------------------------------------------------- input sets
\* rows csv.reader can yield: the empty row (an empty line), a row of one
\* field and rows of two
Rows == {<<>>, <<"A">>, <<"A", "B">>, <<"B", "A">>}

\* lines of the filter file, as str.splitlines() cuts them: one piece for an
\* ordinary line (a blank line gives the empty piece), two for a line with
\* an embedded carriage return
FilterLines == {<<"A">>, <<"B">>, <<"">>, <<"A", "B">>}

OptHelp == <<"-", "h">>
OptFilter == <<"-", "f">>
OptIdCol == <<"-", "i">>
OptLayout == <<"-", "l">>
OptOut == <<"-", "o">>
DashDash == <<"-", "-">>

SeqsUpTo(S, lo, hi) == UNION {[1..n -> S] : n \in lo..hi}

\* every argument list of up to MaxArgs of these arguments
CliTokens == {OptHelp, OptIdCol, DashDash, <<"1">>, <<"x">>}

CliArgvs == SeqsUpTo(CliTokens, 0, MaxArgs)

\* the column numbers of a layout option, as written
LayoutCols == {<<"0">>, <<"1">>, <<"-", "2">>}

RECURSIVE JoinComma(_)
JoinComma(ps) ==
    IF Len(ps) = 1 THEN ps[1]
    ELSE ps[1] \o <<",">> \o JoinComma(Tail(ps))

\* every layout of up to MaxLayout of these column numbers
LayoutStrs == {JoinComma(ps) : ps \in SeqsUpTo(LayoutCols, 1, MaxLayout)}

\* the argument list -f F [-i N] [-l LAYOUT] [-o O] R
Cmd(i, l, o) == <<OptFilter, <<"F">>>> \o i \o l \o o \o << <<"R">> >>

\* every layout, with the other options left out
LayoutArgvs == {Cmd(<<>>, <<OptLayout, s>>, <<>>) : s \in LayoutStrs}

\* another ID column, with and without a layout
IdColArgvs ==
    {Cmd(<<OptIdCol, n>>, l, <<>>) :
        n \in {<<"1">>, <<"-", "1">>},
        l \in {<<>>, <<OptLayout, <<"1">>>>}}

\* an output file name, which may be empty, and a layout that is absent,
\* empty, good or no list of integers
OutputArgvs ==
    {Cmd(<<>>, l, o) :
        l \in {<<>>, <<OptLayout, <<>>>>, <<OptLayout, <<"2">>>>,
               <<OptLayout, <<"0", ",", "x">>>>},
        o \in {<<>>, <<OptOut, <<"O">>>>, <<OptOut, <<>>>>}}

\* a help flag before or after an otherwise good argument list
HelpArgvs ==
    {<<OptHelp>> \o Cmd(<<>>, <<>>, <<>>), Cmd(<<>>, <<>>, <<>>) \o <<OptHelp>>,
     Cmd(<<OptIdCol, <<"x">>>>, <<>>, <<>>) \o <<OptHelp>>,
     <<OptFilter, OptHelp, <<"R">>>>}

\* an option letter the program does not have
BadOptArgvs == {Cmd(<<<<"-", "x">>>>, <<>>, <<>>)}

Argvs ==
    CliArgvs \cup LayoutArgvs \cup IdColArgvs \cup OutputArgvs
        \cup HelpArgvs \cup BadOptArgvs

\* ---------------------------------------------------- Python's primitives
DigitVal ==
    ("0" :> 0) @@ ("1" :> 1) @@ ("2" :> 2) @@ ("3" :> 3) @@ ("4" :> 4) @@
    ("5" :> 5) @@ ("6" :> 6) @@ ("7" :> 7) @@ ("8" :> 8) @@ ("9" :> 9)

Front(s) == SubSeq(s, 1, Len(s) - 1)

Last(s) == s[Len(s)]

\* the text after an optional sign
Unsigned(s) == IF s # <<>> /\ s[1] \in {"-", "+"} THEN Tail(s) ELSE s

\* int(s) succeeds: an optional sign and at least one decimal digit
IsIntStr(s) ==
    /\ Unsigned(s) # <<>>
    /\ \A k \in 1..Len(Unsigned(s)) : Unsigned(s)[k] \in DOMAIN DigitVal

RECURSIVE DigitsVal(_)
DigitsVal(s) ==
    IF s = <<>> THEN 0 ELSE 10 * DigitsVal(Front(s)) + DigitVal[Last(s)]

\* int(s) where it succeeds
IntOf(s) ==
    IF s # <<>> /\ s[1] = "-" THEN 0 - DigitsVal(Unsigned(s))
    ELSE DigitsVal(Unsigned(s))

\* s.split(',')
RECURSIVE SplitComma(_)
SplitComma(s) ==
    IF \A k \in 1..Len(s) : s[k] # ","
    THEN <<s>>
    ELSE LET i == CHOOSE k \in 1..Len(s) :
                     s[k] = "," /\ \A j \in 1..(k - 1) : s[j] # ","
         IN  <<SubSeq(s, 1, i - 1)>> \o SplitComma(SubSeq(s, i + 1, Len(s)))

\* seq[i] does not raise IndexError (zero-based, negative from the end)
CanIndex(seq, i) == 0 - Len(seq) <= i /\ i < Len(seq)

\* seq[i] where it does not raise
GetItem(seq, i) == IF i >= 0 THEN seq[i + 1] ELSE seq[Len(seq) + i + 1]

\* ------------------------------------------------------------------ state
VARIABLES
    argv,         \* the argument list main() was given (never changes)
    rargs,        \* optparse: arguments not yet processed
    largs,        \* optparse: positional arguments collected so far
    settings,     \* optparse: the option values
    args,         \* the positional arguments parse_args returned
    pc,           \* the statement main() is at
    status,       \* the exit status of the process, Running until it ends
    outcome,      \* how the process ended
    rec_file,     \* the handle on the record file
    rec_read,     \* the rows read from the record file so far
    rec_map,      \* run(): record ID -> row
    res_file,     \* run(): the output destination
    res_closed,   \* run() has closed the output destination
    filter_file,  \* the handle on the filter file
    filter_read,  \* the lines read from the filter file so far
    out_layout,   \* run(): the parsed layout, empty when there is none
    rows,         \* the rows written through csv.writer
    log           \* the messages logged at INFO level and above

vars ==
    <<argv, rargs, largs, settings, args, pc, status, outcome, rec_file,
      rec_read, rec_map, res_file, res_closed, filter_file, filter_read,
      out_layout, rows, log>>

cliVars == <<rargs, largs, settings, args>>

runVars ==
    <<rec_file, rec_read, rec_map, res_file, res_closed, filter_file,
      filter_read, out_layout, rows, log>>

\* status while the process has not ended
Running == 0 - 1

\* the defaults of the options (lines 77-92); None is the empty string
DefaultSettings ==
    [filt_file_name |-> <<>>, id_column |-> 0, layout |-> <<>>,
     out_file_name |-> <<>>]

Init ==
    /\ argv \in Argvs
    /\ rargs = argv
    /\ largs = <<>>
    /\ settings = DefaultSettings
    /\ args = <<>>
    /\ pc = "parse_args"
    /\ status = Running
    /\ outcome = "running"
    /\ rec_file = "unopened"
    /\ rec_read = <<>>
    /\ rec_map = [k \in {} |-> <<>>]
    /\ res_file = "none"
    /\ res_closed = FALSE
    /\ filter_file = "unopened"
    /\ filter_read = <<>>
    /\ out_layout = <<>>
    /\ rows = <<>>
    /\ log = <<>>

\* the process ends: sys.exit(code), or an exception no one catches
Exit(code, how) ==
    /\ status' = code
    /\ outcome' = how

\* parser.error(msg): usage on the error stream, exit status 2
UsageError == Exit(2, "UsageError")

\* an exception propagates out of main(): traceback, exit status 1
Uncaught(exc) == Exit(1, exc)

\* ------------------------------------------------- process_command_line
\* optparse takes the argument as a cluster of short options
IsShortOpt(arg) == Len(arg) > 1 /\ arg[1] = "-" /\ arg[2] # "-"

\* optparse takes the argument as a long option (--filter, --help=...);
\* the argument lists of Argvs have none
IsLongOpt(arg) == Len(arg) > 2 /\ arg[1] = "-" /\ arg[2] = "-"

\* the options that take a value, and the setting each one fills
OptDest ==
    ("f" :> "filt_file_name") @@ ("i" :> "id_column") @@
    ("l" :> "layout") @@ ("o" :> "out_file_name")

\* the value an option stores: type="int" for the ID column, the text as
\* given for the others
OptConvert(ch, value) == IF ch = "i" THEN IntOf(value) ELSE value

\* optparse accepts the value for the option
OptValueOk(ch, value) == ch # "i" \/ IsIntStr(value)

\* "--" ends the options: what follows it is positional
ProcessDashDash ==
    /\ status = Running /\ pc = "parse_args"
    /\ rargs # <<>> /\ Head(rargs) = DashDash
    /\ rargs' = Tail(rargs)
    /\ args' = largs \o Tail(rargs)
    /\ pc' = "check_args"
    /\ UNCHANGED <<argv, largs, settings, status, outcome, runVars>>

\* an argument that is not an option is collected as positional
ProcessPositional ==
    /\ status = Running /\ pc = "parse_args"
    /\ rargs # <<>> /\ Head(rargs) # DashDash
    /\ ~IsShortOpt(Head(rargs)) /\ ~IsLongOpt(Head(rargs))
    /\ largs' = Append(largs, Head(rargs))
    /\ rargs' = Tail(rargs)
    /\ UNCHANGED <<argv, settings, args, pc, status, outcome, runVars>>

\* -h looks first at the arguments that follow it and reports a bad ID
\* column among them
ProcessHelpLate ==
    /\ status = Running /\ pc = "parse_args"
    /\ rargs # <<>> /\ IsShortOpt(Head(rargs)) /\ Head(rargs)[2] = "h"
    /\ rargs' = Tail(rargs)
    /\ IF \E k \in 1..(Len(rargs) - 1) :
              rargs[k] = OptIdCol /\ ~IsIntStr(rargs[k + 1])
       THEN UsageError
       ELSE Exit(0, "help")
    /\ UNCHANGED <<argv, largs, settings, args, pc, runVars>>

\* -h: action='help' prints the help and exits with status 0
ProcessHelp ==
    /\ status = Running /\ pc = "parse_args"
    /\ rargs # <<>> /\ IsShortOpt(Head(rargs)) /\ Head(rargs)[2] = "h"
    /\ rargs' = Tail(rargs)
    /\ Exit(0, "help")
    /\ UNCHANGED <<argv, largs, settings, args, pc, runVars>>

\* an option letter the parser does not know
ProcessBadOpt ==
    /\ status = Running /\ pc = "parse_args"
    /\ rargs # <<>> /\ IsShortOpt(Head(rargs))
    /\ Head(rargs)[2] \notin DOMAIN OptDest \cup {"h"}
    /\ rargs' = Tail(rargs)
    /\ UsageError
    /\ UNCHANGED <<argv, largs, settings, args, pc, runVars>>

\* -f, -i, -l, -o: the value is the rest of the argument or, when there is
\* none, the next argument whatever it looks like
ProcessValueOpt ==
    /\ status = Running /\ pc = "parse_args"
    /\ rargs # <<>> /\ IsShortOpt(Head(rargs))
    /\ Head(rargs)[2] \in DOMAIN OptDest
    /\ LET arg == Head(rargs)
           ch == arg[2]
           attached == SubSeq(arg, 3, Len(arg))
           after == Tail(rargs)
       IN  IF attached = <<>> /\ after = <<>>
           THEN \* option requires an argument
                /\ rargs' = after
                /\ UsageError
                /\ UNCHANGED settings
           ELSE LET value == IF attached # <<>> THEN attached ELSE Head(after)
                    rest == IF attached # <<>> THEN after ELSE Tail(after)
                IN  /\ rargs' = rest
                    /\ IF OptValueOk(ch, value)
                       THEN /\ settings' =
                                [settings EXCEPT
                                    ![OptDest[ch]] = OptConvert(ch, value)]
                            /\ UNCHANGED <<status, outcome>>
                       ELSE /\ UsageError
                            /\ UNCHANGED settings
    /\ UNCHANGED <<argv, largs, args, pc, runVars>>

\* no argument is left: parse_args returns
ParseArgsDone ==
    /\ status = Running /\ pc = "parse_args"
    /\ rargs = <<>>
    /\ args' = largs
    /\ pc' = "check_args"
    /\ UNCHANGED <<argv, rargs, largs, settings, status, outcome, runVars>>

\* lines 96-111: exactly one record file, and a filter file
CheckArgs ==
    /\ status = Running /\ pc = "check_args"
    /\ IF Len(args) - 1 # 0 \/ settings.filt_file_name = <<>>
       THEN UsageError /\ UNCHANGED pc
       ELSE pc' = "open_rec" /\ UNCHANGED <<status, outcome>>
    /\ UNCHANGED <<argv, cliVars, runVars>>

\* -------------------------------------------------------------------- run
\* the first row with an ID is kept
StoreRecFirst(map, key, rec) ==
    [k \in DOMAIN map \cup {key} |-> IF k \in DOMAIN map THEN map[k] ELSE rec]

\* rec_map[key] = rec (line 142)
StoreRec(map, key, rec) ==
    [k \in DOMAIN map \cup {key} |-> IF k = key THEN rec ELSE map[k]]

\* the first field is the key whatever the ID column
RecKeyFirst(rec, id_col) == GetItem(rec, 0)

\* the key a row is filed under: rec[id_col] (line 142)
RecKey(rec, id_col) == GetItem(rec, id_col)

\* a row with no ID field is passed over like an empty one
LoadRecSkipShort(map, rec, id_col) ==
    IF rec = <<>> \/ ~CanIndex(rec, id_col)
    THEN [map |-> map, raised |-> FALSE]
    ELSE [map |-> StoreRec(map, RecKey(rec, id_col), rec), raised |-> FALSE]

\* the body of the loading loop for one row (lines 139-146): an empty row
\* is passed over, any other row is filed under its ID field, and a row
\* with no such field raises IndexError
LoadRec(map, rec, id_col) ==
    IF rec = <<>> THEN [map |-> map, raised |-> FALSE]
    ELSE IF CanIndex(rec, id_col)
         THEN [map |-> StoreRec(map, RecKey(rec, id_col), rec),
               raised |-> FALSE]
         ELSE [map |-> map, raised |-> TRUE]

\* id.splitlines()[0] (line 169)
LineId(line) == Head(line)

\* the layout as run() parses it (lines 163-164)
ParseLayout(text) ==
    [k \in 1..Len(SplitComma(text)) |-> IntOf(SplitComma(text)[k])]

\* int() accepts every text between the commas
LayoutOk(text) ==
    \A k \in 1..Len(SplitComma(text)) : IsIntStr(SplitComma(text)[k])

\* the columns of the layout kept for a row (lines 181-182)
RecLayout(rec, layout) == SelectSeq(layout, LAMBDA col_num : col_num < Len(rec))

\* picking the kept columns raises IndexError (line 186)
FieldsRaise(rec, layout) ==
    \E k \in 1..Len(RecLayout(rec, layout)) :
        ~CanIndex(rec, RecLayout(rec, layout)[k])

\* a column number beyond the row gives an empty field
FieldsPadded(rec, layout) ==
    IF layout = <<>> THEN rec
    ELSE [k \in 1..Len(layout) |->
             IF layout[k] < Len(rec) THEN GetItem(rec, layout[k]) ELSE ""]

\* the row written for a matched record (lines 177-186)
Fields(rec, layout) ==
    IF layout = <<>> THEN rec
    ELSE [k \in 1..Len(RecLayout(rec, layout)) |->
             GetItem(rec, RecLayout(rec, layout)[k])]

\* the row is written before the rows written so far
WriteRowFront(out, fields) == <<fields>> \o out

\* a row without fields is not written
WriteRowSkipEmpty(out, fields) ==
    IF fields = <<>> THEN out ELSE Append(out, fields)

\* out_rec_file.writerow(fields) (line 188)
WriteRow(out, fields) == Append(out, fields)

\* line 131 and the open of line 134
OpenRecFile ==
    /\ status = Running /\ pc = "open_rec"
    /\ log' = Append(log, <<"INFO", "Reading record file">>)
    /\ \E ok \in BOOLEAN :
        IF ok
        THEN /\ rec_file' = "open"
             /\ pc' = "read_rec"
             /\ UNCHANGED <<status, outcome>>
        ELSE /\ Uncaught("IOError")
             /\ UNCHANGED <<rec_file, pc>>
    /\ UNCHANGED <<argv, cliVars, rec_read, rec_map, res_file, res_closed,
                   filter_file, filter_read, out_layout, rows>>

\* one turn of the loop of lines 139-146
ReadRec ==
    /\ status = Running /\ pc = "read_rec"
    /\ Len(rec_read) < MaxRecs
    /\ \E rec \in Rows :
        LET res == LoadRec(rec_map, rec, settings.id_column)
        IN  /\ rec_read' = Append(rec_read, rec)
            /\ rec_map' = res.map
            /\ IF res.raised
               THEN /\ Uncaught("IndexError")
                    /\ rec_file' = "closed"
               ELSE UNCHANGED <<status, outcome, rec_file>>
    /\ UNCHANGED <<argv, cliVars, pc, res_file, res_closed, filter_file,
                   filter_read, out_layout, rows, log>>

\* the record file is exhausted: the with block ends, lines 148-150
EndOfRecFile ==
    /\ status = Running /\ pc = "read_rec"
    /\ rec_file' = "closed"
    /\ log' = Append(log, <<"INFO", "Finished reading record file">>)
    /\ pc' = "open_out"
    /\ UNCHANGED <<argv, cliVars, status, outcome, rec_read, rec_map,
                   res_file, res_closed, filter_file, filter_read,
                   out_layout, rows>>

\* lines 152-155: the output file is opened for writing, which truncates
\* it, or the standard output is taken
OpenOut ==
    /\ status = Running /\ pc = "open_out"
    /\ IF settings.out_file_name # <<>>
       THEN \E ok \in BOOLEAN :
               IF ok
               THEN /\ res_file' = "file"
                    /\ pc' = "open_filter"
                    /\ UNCHANGED <<status, outcome>>
               ELSE /\ Uncaught("IOError")
                    /\ UNCHANGED <<res_file, pc>>
       ELSE /\ res_file' = "stdout"
            /\ pc' = "open_filter"
            /\ UNCHANGED <<status, outcome>>
    /\ UNCHANGED <<argv, cliVars, rec_file, rec_read, rec_map, res_closed,
                   filter_file, filter_read, out_layout, rows, log>>

\* line 156
OpenFilter ==
    /\ status = Running /\ pc = "open_filter"
    /\ \E ok \in BOOLEAN :
        IF ok
        THEN /\ filter_file' = "open"
             /\ pc' = "layout"
             /\ UNCHANGED <<status, outcome>>
        ELSE /\ Uncaught("IOError")
             /\ UNCHANGED <<filter_file, pc>>
    /\ UNCHANGED <<argv, cliVars, rec_file, rec_read, rec_map, res_file,
                   res_closed, filter_read, out_layout, rows, log>>

\* lines 158-165
SetLayout ==
    /\ status = Running /\ pc = "layout"
    /\ IF settings.layout = <<>>
       THEN /\ pc' = "filter"
            /\ UNCHANGED <<out_layout, filter_file, status, outcome>>
       ELSE IF LayoutOk(settings.layout)
            THEN /\ out_layout' = ParseLayout(settings.layout)
                 /\ pc' = "filter"
                 /\ UNCHANGED <<filter_file, status, outcome>>
            ELSE /\ Uncaught("ValueError")
                 /\ filter_file' = "closed"
                 /\ UNCHANGED <<out_layout, pc>>
    /\ UNCHANGED <<argv, cliVars, rec_file, rec_read, rec_map, res_file,
                   res_closed, filter_read, rows, log>>

\* one turn of the loop of lines 167-191
FilterLine ==
    /\ status = Running /\ pc = "filter"
    /\ Len(filter_read) < MaxLines
    /\ \E line \in FilterLines :
        /\ filter_read' = Append(filter_read, line)
        /\ IF LineId(line) \in DOMAIN rec_map
           THEN IF FieldsRaise(rec_map[LineId(line)], out_layout)
                THEN /\ Uncaught("IndexError")
                     /\ filter_file' = "closed"
                     /\ UNCHANGED <<rows, log>>
                ELSE /\ rows' = WriteRow(rows,
                                    Fields(rec_map[LineId(line)], out_layout))
                     /\ UNCHANGED <<status, outcome, filter_file, log>>
           ELSE /\ log' = Append(log, <<"WARNING", LineId(line)>>)
                /\ UNCHANGED <<status, outcome, filter_file, rows>>
    /\ UNCHANGED <<argv, cliVars, pc, rec_file, rec_read, rec_map, res_file,
                   res_closed, out_layout>>

\* the filter file is exhausted: the with block ends
EndOfFilter ==
    /\ status = Running /\ pc = "filter"
    /\ filter_file' = "closed"
    /\ pc' = "close"
    /\ UNCHANGED <<argv, cliVars, status, outcome, rec_file, rec_read,
                   rec_map, res_file, res_closed, filter_read, out_layout,
                   rows, log>>

\* lines 193-196, then main() returns 0 and the process exits with it
CloseOut ==
    /\ status = Running /\ pc = "close"
    /\ res_closed' = (settings.out_file_name # <<>>)
    /\ log' = Append(log, <<"INFO", "Done!">>)
    /\ pc' = "exit"
    /\ Exit(0, "done")
    /\ UNCHANGED <<argv, cliVars, rec_file, rec_read, rec_map, res_file,
                   filter_file, filter_read, out_layout, rows>>

Next ==
    \/ ProcessDashDash
    \/ ProcessPositional
    \/ ProcessHelp
    \/ ProcessBadOpt
    \/ ProcessValueOpt
    \/ ParseArgsDone
    \/ CheckArgs
    \/ OpenRecFile
    \/ ReadRec
    \/ EndOfRecFile
    \/ OpenOut
    \/ OpenFilter
    \/ SetLayout
    \/ FilterLine
    \/ EndOfFilter
    \/ CloseOut

Spec == Init /\ [][Next]_vars

\* ------------------------------------------------------------ properties
\* the run has got past the loading of the record file
Loaded == pc \in {"open_out", "open_filter", "layout", "filter", "close", "exit"}

\* the run ended normally: "Done!" is logged and the process exits with 0
Completed == pc = "exit"

\* the filter pass was cut short by an IndexError on the last line read
FilterAborted == pc = "filter" /\ outcome = "IndexError"

\* the filter lines whose turn of the loop ran to its end
Processed == IF FilterAborted THEN Front(filter_read) ELSE filter_read

\* the processed filter lines whose ID is a key of the record map
Matched == SelectSeq(Processed, LAMBDA line : LineId(line) \in DOMAIN rec_map)

\* the IDs of the processed filter lines that are no key of the record map
Unmatched ==
    LET miss == SelectSeq(Processed,
                          LAMBDA line : LineId(line) \notin DOMAIN rec_map)
    IN  [k \in 1..Len(miss) |-> LineId(miss[k])]

\* the IDs warned about, in the order of the warnings
Warned ==
    LET warn == SelectSeq(log, LAMBDA msg : msg[1] = "WARNING")
    IN  [k \in 1..Len(warn) |-> warn[k][2]]

\* the ID field of a row of the record file
IdOf(rec) == GetItem(rec, settings.id_column)

\* the position in the record file of the last row with this ID
LastWith(id) ==
    CHOOSE i \in 1..Len(rec_read) :
        /\ rec_read[i] # <<>> /\ IdOf(rec_read[i]) = id
        /\ \A j \in (i + 1)..Len(rec_read) :
              rec_read[j] = <<>> \/ IdOf(rec_read[j]) # id

\* C1: the rows written are, in order, the (projected) records of the filter
\* lines whose ID is a key of the record map: one row per such line, in the
\* order of the filter file, and none for the other lines
C1_FilterOrder ==
    Loaded =>
        rows = [k \in 1..Len(Matched) |->
                   Fields(rec_map[LineId(Matched[k])], out_layout)]

\* a completed run that wrote two different records in the order opposite
\* to the one they have in the record file
C1_Witness ==
    /\ Completed
    /\ Len(rec_read) = 2 /\ rec_read[1] # rec_read[2]
    /\ rows = <<rec_read[2], rec_read[1]>>

\* the projection of a record on a layout, column by column: a column number
\* below the length of the record gives that field, any other gives nothing
RECURSIVE Projection(_, _)
Projection(rec, layout) ==
    IF layout = <<>> THEN <<>>
    ELSE (IF Head(layout) < Len(rec)
          THEN <<GetItem(rec, Head(layout))>>
          ELSE <<>>) \o Projection(rec, Tail(layout))

\* C2: with a layout, the row written for a matched record is the list of
\* its fields at the column numbers of the layout that are below its length,
\* in layout order, with nothing in the place of the others; without a
\* layout it is the record itself
C2_LayoutProjection ==
    Loaded =>
        /\ Len(rows) = Len(Matched)
        /\ \A k \in 1..Len(rows) :
              LET rec == rec_map[LineId(Matched[k])]
              IN  IF settings.layout = <<>>
                  THEN rows[k] = rec
                  ELSE rows[k] = Projection(rec, ParseLayout(settings.layout))

\* a row was written that is shorter than the layout it was projected on,
\* next to one that is not
C2_Witness ==
    /\ Completed
    /\ Len(out_layout) = 2 /\ Len(rows) = 2
    /\ Len(rows[1]) = 1 /\ Len(rows[2]) = 2

\* C3: the loading never fails on a row that has an ID field, whatever
\* was read before it; once the record file is read, the record map has
\* exactly the IDs of its non-empty rows and holds, for each, the last row
\* with that ID; a filter line with that ID writes that last row (projected
\* on the layout)
C3_LastWins ==
    /\ pc = "read_rec" /\ outcome = "IndexError"
          => ~CanIndex(Last(rec_read), settings.id_column)
    /\ Loaded =>
          /\ DOMAIN rec_map =
                {IdOf(rec_read[i]) :
                    i \in {j \in 1..Len(rec_read) : rec_read[j] # <<>>}}
          /\ \A id \in DOMAIN rec_map : rec_map[id] = rec_read[LastWith(id)]
          /\ Len(rows) = Len(Matched)
          /\ \A k \in 1..Len(rows) :
                rows[k] = Fields(rec_read[LastWith(LineId(Matched[k]))],
                                 out_layout)

\* two different rows with the same ID were read, and the filter pass wrote
\* the second one
C3_Witness ==
    /\ Completed /\ settings.layout = <<>>
    /\ Len(rec_read) = 2 /\ rec_read[1] # <<>> /\ rec_read[2] # <<>>
    /\ rec_read[1] # rec_read[2]
    /\ IdOf(rec_read[1]) = IdOf(rec_read[2])
    /\ rows = <<rec_read[2]>>

\* C4: never more rows than filter lines read; every processed line gave
\* either one row (its ID is a key) or one warning naming its ID (it is
\* not); a completed run whose filter IDs are all keys wrote as many rows as
\* the filter file has lines
C4_RowCount ==
    /\ Len(rows) <= Len(filter_read)
    /\ Len(rows) = Len(Matched)
    /\ Warned = Unmatched
    /\ Completed /\ (\A k \in 1..Len(filter_read) :
                        LineId(filter_read[k]) \in DOMAIN rec_map)
           => Len(rows) = Len(filter_read)

\* a completed run where every filter ID was a key and the layout dropped
\* every column of the records: as many (empty) rows as filter lines
C4_Witness ==
    /\ Completed /\ out_layout # <<>>
    /\ Len(filter_read) = 2 /\ rows = <<<<>>, <<>>>>

\* a completed run that warned about a blank line and wrote a row for the
\* other line
C4_WitnessBlank ==
    /\ Completed /\ Len(filter_read) = 2 /\ Len(rows) = 1
    /\ Warned = <<"">>

\* C5: a usage error (no or extra positional arguments, no filter file, an
\* ID column or a layout that is no integer) ends the process with a
\* non-zero status before the record file is opened and before the output
\* file is opened, created or truncated
C5_UsageErrorTouchesNoFile ==
    outcome \in {"UsageError", "ValueError"} =>
        /\ status > 0
        /\ rec_file = "unopened"
        /\ res_file = "none"

\* C6: an output file run() opened is closed by the time the run ends,
\* however it ends, and the standard output is never closed
C6_OutputClosed ==
    /\ status # Running /\ res_file = "file" => res_closed
    /\ res_file = "stdout" => ~res_closed

\* option processing reaches a help flag: no argument before it is an
\* unknown option, an option without its value or with a bad one, or "--",
\* and no option before it takes it as its value
RECURSIVE HelpReached(_)
HelpReached(a) ==
    IF a = <<>> \/ Head(a) = DashDash THEN FALSE
    ELSE IF ~IsShortOpt(Head(a)) THEN HelpReached(Tail(a))
    ELSE IF Head(a)[2] = "h" THEN TRUE
    ELSE IF Head(a)[2] \notin DOMAIN OptDest THEN FALSE
    ELSE IF Len(Head(a)) > 2
         THEN OptValueOk(Head(a)[2], SubSeq(Head(a), 3, Len(Head(a))))
                 /\ HelpReached(Tail(a))
         ELSE Len(a) > 1 /\ OptValueOk(Head(a)[2], a[2])
                 /\ HelpReached(Tail(Tail(a)))

\* a help flag stands in the argument list where an option can stand: not
\* after "--" and not as the value of the option before it
RECURSIVE HelpFlagGiven(_)
HelpFlagGiven(a) ==
    IF a = <<>> \/ Head(a) = DashDash THEN FALSE
    ELSE IF ~IsShortOpt(Head(a)) THEN HelpFlagGiven(Tail(a))
    ELSE IF Head(a)[2] = "h" THEN TRUE
    ELSE IF Head(a)[2] \in DOMAIN OptDest /\ Len(Head(a)) = 2
         THEN Len(a) > 1 /\ HelpFlagGiven(Tail(Tail(a)))
         ELSE HelpFlagGiven(Tail(a))

\* C7 as stated: a help flag anywhere among the options makes the process
\* print the help and exit with status 0, whatever else is wrong with the
\* argument list
C7_HelpAnywhere ==
    status # Running /\ HelpFlagGiven(argv) => outcome = "help" /\ status = 0

\* C7 as amended: the process ends on the help, with status 0 and before
\* any validation of the positional arguments and the filter option, exactly
\* when option processing reaches a help flag
C7_HelpWhenReached ==
    status # Running =>
        /\ HelpReached(argv) <=> outcome = "help"
        /\ outcome = "help" => status = 0 /\ pc = "parse_args"

\* the help ended a process whose argument list has a positional argument
\* too many before the help flag, no filter option, and an ID column that
\* is no integer after the help flag
C7_Witness ==
    /\ outcome = "help" /\ status = 0
    /\ Len(largs) = 2 /\ settings.filt_file_name = <<>>
    /\ rargs = <<OptIdCol, <<"x">>>>

\* C8: a completed run without layout, on a record file whose rows all have
\* an ID and no two the same, with a filter file that lists these IDs in the
\* order of the record file, writes the rows of the record file
C8_RoundTrip ==
    (/\ Completed /\ settings.layout = <<>>
     /\ \A i \in 1..Len(rec_read) : rec_read[i] # <<>>
     /\ \A i, j \in 1..Len(rec_read) :
           i # j => IdOf(rec_read[i]) # IdOf(rec_read[j])
     /\ filter_read = [k \in 1..Len(rec_read) |-> <<IdOf(rec_read[k])>>])
        => rows = rec_read

\* a completed round trip of two records whose ID is not in the first column
C8_Witness ==
    /\ Completed /\ settings.layout = <<>> /\ settings.id_column = 1
    /\ Len(rec_read) = 2 /\ rows = rec_read
    /\ filter_read = <<<<IdOf(rec_read[1])>>, <<IdOf(rec_read[2])>>>>
    /\ IdOf(rec_read[1]) # IdOf(rec_read[2])

\* a non-empty row with fewer than id_column + 1 fields
Short(rec) == rec # <<>> /\ Len(rec) < settings.id_column + 1

\* the run was cut short by an IndexError while loading the record file
LoadAborted == pc = "read_rec" /\ outcome = "IndexError"

\* C9: a short row aborts the run at once with an IndexError, exit status 1,
\* before the output is opened, the filter file read, a row written or
\* "Done!" logged; an empty row never aborts the run and adds no entry to
\* the record map
C9_ShortRecordFatal ==
    /\ (\E i \in 1..Len(rec_read) : Short(rec_read[i]))
          => LoadAborted /\ Short(Last(rec_read))
    /\ LoadAborted =>
          /\ status = 1
          /\ Last(rec_read) # <<>>
          /\ res_file = "none" /\ ~res_closed
          /\ filter_file = "unopened" /\ filter_read = <<>>
          /\ rows = <<>>
          /\ \A k \in 1..Len(log) : log[k] # <<"INFO", "Done!">>
    /\ \A id \in DOMAIN rec_map :
          \E i \in 1..Len(rec_read) :
              /\ rec_read[i] # <<>>
              /\ CanIndex(rec_read[i], settings.id_column)
              /\ IdOf(rec_read[i]) = id

\* an empty row was passed over, then a row of one field aborted the run
\* whose ID column is the second
C9_Witness ==
    /\ LoadAborted /\ settings.id_column = 1
    /\ Len(rec_read) = 2 /\ rec_read[1] = <<>> /\ Len(rec_read[2]) = 1
    /\ rec_map = [k \in {} |-> <<>>]

\* C10: with a layout of integers the filter pass never ends on an error
\* of the projection, and every field of a row written is the field of the
\* matched record at a zero-based position the layout names
C10_ProjectionNeverAborts ==
    /\ ~FilterAborted
    /\ Loaded /\ out_layout # <<>> /\ Len(rows) = Len(Matched) =>
          \A k \in 1..Len(rows) : \A j \in 1..Len(rows[k]) :
              \E c \in 1..Len(out_layout) :
                  /\ 0 <= out_layout[c]
                  /\ out_layout[c] < Len(rec_map[LineId(Matched[k])])
                  /\ rows[k][j] =
                        rec_map[LineId(Matched[k])][out_layout[c] + 1]

====
